---- MODULE Spec2Model ----
(***************************************************************************)
(* Model of flengyel/ansible_secrets:                                      *)
(*   src/secret_retriever.py                      get_password             *)
(*   src/ansible_secret_helpers/connection_helpers.py                      *)
(*                                  create_ldap_connection,                *)
(*                                  create_db_connection                   *)
(*                                                                         *)
(* The program is synchronous and single threaded, so every public         *)
(* function is one action that runs the whole call.  What a call did is    *)
(* kept in `last` the way a test double would record it: the arguments,    *)
(* the outcome (return / raise / exit), the subprocess.run invocations,    *)
(* the library calls in order, the local credential variables at the       *)
(* moment the call ended and the engines and connections it created.       *)
(*                                                                         *)
(* Text is modelled as a sequence of one-character strings for the data    *)
(* that str.strip() works on (the decryption tool's stdout) and as a TLA+  *)
(* string for names, paths, stderr and message fragments.  A formatted     *)
(* message (f-string) is the tuple of its fragments.                       *)
(*                                                                         *)
(* connection_helpers.py is read without its first and last line of        *)
(* back-quotes (lines 1 and 85), which are a documentation fence and not   *)
(* Python.                                                                 *)
(***************************************************************************)
EXTENDS Integers, Sequences, FiniteSets, TLC

VARIABLES
    fs,                 \* the encrypted files present: path -> what gpg does with it
    secret_retriever,   \* the namespace of module secret_retriever: name -> function
    status,             \* whether the process runs, and the exit status sys.exit was given
    kinds,              \* history: <<cause, exception type>> of every get_password failure so far
    seen,               \* history: secret names get_password has already spawned gpg for
    last                \* record of the last call

vars == <<fs, secret_retriever, status, kinds, seen, last>>

----------------------------------------------------------------------------
(* Bounds *)

\* longest stdout of the decryption tool when get_password is explored alone
MaxLen == 3
\* longest stdout of the decryption tool when the connection builders are explored
MaxSecretLen == 1

----------------------------------------------------------------------------
(* Text *)

Chars == {"a", "\n"}
\* the characters str.strip() removes; of them the model's texts use the newline
Whitespace == {" ", "\n", "\t", "\r"}

\* every text of at most n characters
RECURSIVE TextsUpTo(_)
TextsUpTo(n) ==
    IF n = 0 THEN {<<>>}
    ELSE LET shorter == TextsUpTo(n - 1)
         IN  shorter \cup {Append(s, c) : s \in {t \in shorter : Len(t) = n - 1}, c \in Chars}

\* str.lstrip(): drop leading whitespace
RECURSIVE lstrip(_)
lstrip(s) ==
    IF s # <<>> /\ Head(s) \in Whitespace THEN lstrip(Tail(s)) ELSE s

\* str.rstrip(): drop trailing whitespace
RECURSIVE rstrip(_)
rstrip(s) ==
    IF s # <<>> /\ s[Len(s)] \in Whitespace THEN rstrip(SubSeq(s, 1, Len(s) - 1)) ELSE s

\* str.strip() with no argument: drop leading and trailing whitespace
strip(s) == rstrip(lstrip(s))

\* Python's None, as a value comparable with texts
None == <<"None">>

----------------------------------------------------------------------------
(* Inputs and environment *)

SecretNames == {"svc_user", "svc_pswd"}

\* stderr texts of a failing gpg
Stderrs == {"gpg: decryption failed: Bad session key", "gpg: no valid OpenPGP data found."}

\* what running gpg on an encrypted file gives: exit code, stdout, stderr
GpgOk(out) == [rc |-> 0, stdout |-> out, stderr |-> ""]
GpgFail(err) == [rc |-> 2, stdout |-> <<>>, stderr |-> err]
GpgBehaviours(n) == {GpgOk(t) : t \in TextsUpTo(n)} \cup {GpgFail(e) : e \in Stderrs}

----------------------------------------------------------------------------
(* secret_retriever.py *)

SECRETS_DIR == "/opt/credential_store"

\* os.path.join(a, b) for a relative b: secret names are identifiers, so the
\* file name never starts with a path separator
os_path_join(a, b) == a \o "/" \o b

GPG_PASSPHRASE_FILE == os_path_join(SECRETS_DIR, ".gpg_passphrase")

\* line 13
enc_file_of(secret_name) == os_path_join(SECRETS_DIR, secret_name \o "_secret.txt.gpg")

\* lines 17-21
gpg_cmd(enc_file) ==
    <<"gpg", "--batch", "--quiet", "--yes",
      "--passphrase-file", GPG_PASSPHRASE_FILE,
      "--decrypt", enc_file>>

\* results of a call
Return(v) == [kind |-> "return", value |-> v, type |-> "", msg |-> <<>>, stderr |-> ""]
Raise(t, m) == [kind |-> "raise", value |-> None, type |-> t, msg |-> m, stderr |-> ""]

\* subprocess.run(cmd, stdout=PIPE, stderr=PIPE, universal_newlines=True, check=True)
\* files: the file system; on_path: whether the executable cmd[1] is found on PATH.
\* gpg decrypts its last argument; a target or passphrase file it cannot read
\* makes it exit non-zero.
subprocess_run(cmd, files, on_path) ==
    IF ~on_path THEN Raise("FileNotFoundError", <<"No such file or directory: ", cmd[1]>>)
    ELSE LET target == cmd[Len(cmd)]
             proc == IF target \in DOMAIN files /\ cmd[6] = GPG_PASSPHRASE_FILE
                     THEN files[target]
                     ELSE GpgFail("gpg: can't open file")
         IN  IF proc.rc # 0
             THEN [Raise("CalledProcessError", <<"non-zero exit status">>) EXCEPT !.stderr = proc.stderr]
             ELSE Return(proc.stdout)

\* mutant: the existence check is missing
secret_exists_unchecked(enc_file, files) == TRUE

\* os.path.exists(enc_file)                                                   (14)
secret_exists(enc_file, files) == enc_file \in DOMAIN files

\* mutant: a failed decryption is tried a second time
run_gpg_retry(cmd, files, on_path) ==
    LET first == subprocess_run(cmd, files, on_path)
    IN  IF first.kind = "return" THEN [result |-> first, runs |-> <<cmd>>]
        ELSE [result |-> subprocess_run(cmd, files, on_path), runs |-> <<cmd, cmd>>]

\* result = subprocess.run(cmd, ...): one invocation                           (24-27)
run_gpg(cmd, files, on_path) ==
    [result |-> subprocess_run(cmd, files, on_path), runs |-> <<cmd>>]

\* mutant: only the trailing whitespace is removed
stdout_rstrip(stdout) == rstrip(stdout)

\* result.stdout.strip()                                                       (28)
stdout_strip(stdout) == strip(stdout)

\* mutant: the FileNotFoundError of a missing executable is not caught
tool_missing_uncaught(e) == e

\* except FileNotFoundError: raise RuntimeError(...)                           (31-32)
tool_missing(e) == Raise("RuntimeError", <<"gpg command not found. Is GnuPG installed?">>)

\* get_password(secret_name), lines 8-32.  res: what the call returns or
\* raises; runs: the subprocess.run invocations it made.
get_password(secret_name, files, on_path) ==
    LET enc_file == enc_file_of(secret_name)                                   \* 13
        cmd == gpg_cmd(enc_file)                                               \* 17-21
        p == run_gpg(cmd, files, on_path)                                      \* 24-27
    IN  IF ~secret_exists(enc_file, files)                                     \* 14
        THEN [res |-> Raise("FileNotFoundError",                               \* 15
                            <<"Encrypted secret for '", secret_name, "' not found.">>),
              runs |-> <<>>]
        ELSE [res |-> IF p.result.kind = "return"
                      THEN Return(stdout_strip(p.result.value))                \* 28
                      ELSE IF p.result.type = "CalledProcessError"             \* 29-30
                      THEN Raise("RuntimeError",
                                 <<"GPG decryption failed for '", secret_name, "': ",
                                   p.result.stderr>>)
                      ELSE tool_missing(p.result),                             \* 31-32
              runs |-> p.runs]

\* why a get_password call failed, read off the environment
CauseOf(secret_name, files, on_path) ==
    IF enc_file_of(secret_name) \notin DOMAIN files THEN "file missing"
    ELSE IF ~on_path THEN "tool missing"
    ELSE IF files[enc_file_of(secret_name)].rc # 0 THEN "tool failed"
    ELSE "none"

----------------------------------------------------------------------------
(* connection_helpers.py: what both builders share *)

\* no exception pending
NoExc == [kind |-> "none", value |-> None, type |-> "", msg |-> <<>>, stderr |-> ""]

\* a library call as a test double records it
Ev(call, arg, ok) == [call |-> call, arg |-> arg, ok |-> ok]

\* The local state of a builder call.  user, pswd: the credential variables
\* (oud_user, oud_pswd / db_user, db_pswd); oud: the directory connection;
\* engine, conn: index into engines / conns of the object the variable holds,
\* 0 for None; exc: the exception being raised in the try block; returned:
\* a return statement has run; value: what it returned.
Frame0 ==
    [user |-> None, pswd |-> None,
     srv |-> "None", oud |-> "None", url |-> <<>>, engine |-> 0, conn |-> 0,
     engines |-> <<>>, conns |-> <<>>,
     exc |-> NoExc, returned |-> FALSE, value |-> [shape |-> "none", engine |-> 0, conn |-> 0],
     runs |-> <<>>, events |-> <<>>]

\* the next statement of the try block runs
Live(f) == f.exc.kind = "none" /\ ~f.returned

\* secret_retriever.get_secret(name): attribute lookup on the module, then the call
get_secret(ns, name, files, on_path) ==
    IF "get_secret" \notin DOMAIN ns
    THEN [res |-> Raise("AttributeError",
                        <<"module 'secret_retriever' has no attribute '", "get_secret", "'">>),
          runs |-> <<>>]
    ELSE get_password(name, files, on_path)

\* var = secret_retriever.get_secret(name)        (lines 17, 18, 52, 56)
retrieve(f, var, ns, name, files, on_path) ==
    IF ~Live(f) THEN f
    ELSE LET r == get_secret(ns, name, files, on_path)
         IN  [f EXCEPT ![var] = IF r.res.kind = "return" THEN r.res.value ELSE @,
                       !.exc = IF r.res.kind = "raise" THEN r.res ELSE @,
                       !.runs = @ \o r.runs,
                       !.events = Append(@, Ev("get_secret", name, r.res.kind = "return"))]

\* mutant: the credentials are never reset
clear_credentials_skipped(f) == f

\* var_user = None; var_pswd = None               (lines 25-26, 64-65)
clear_credentials(f) ==
    IF ~Live(f) THEN f
    ELSE [f EXCEPT !.user = None, !.pswd = None,
                   !.events = Append(@, Ev("clear", "", TRUE))]

----------------------------------------------------------------------------
(* create_ldap_connection, lines 9-38 *)

LDAPS_PORT == 636

\* tls = Tls(validate=ssl.CERT_NONE); srv = Server(ldap_server, port=636, ...)    (20-21)
ldap_descriptor(f, ldap_server, ok) ==
    IF ~Live(f) THEN f
    ELSE [f EXCEPT !.srv = IF ok THEN "ldaps://" \o ldap_server \o ":" \o ToString(LDAPS_PORT)
                                \o " validate=CERT_NONE"
                           ELSE @,
                   !.exc = IF ok THEN @ ELSE Raise("LDAPException", <<"Server">>),
                   !.events = Append(@, Ev("Server", ldap_server, ok))]

\* oud = Connection(srv, user=oud_user, password=oud_pswd, auto_bind=True)        (22)
\* bind: "bound", "unbound" (the constructor returns an unbound connection) or "raise"
ldap_bind(f, bind) ==
    IF ~Live(f) THEN f
    ELSE [f EXCEPT !.oud = IF bind = "raise" THEN @ ELSE bind,
                   !.exc = IF bind = "raise" THEN Raise("LDAPBindError", <<"bind">>) ELSE @,
                   !.events = Append(@, Ev("Connection", "", bind # "raise"))]

\* if not oud.bound: raise ConnectionError(...)                                   (28-30)
ldap_check_bound(f, ldap_server) ==
    IF ~Live(f) THEN f
    ELSE IF f.oud # "bound"
         THEN [f EXCEPT !.exc = Raise("ConnectionError", <<"Error: cannot bind to ", ldap_server>>)]
         ELSE f

\* return oud                                                                      (33)
ldap_return(f) ==
    IF ~Live(f) THEN f
    ELSE [f EXCEPT !.returned = TRUE, !.value = [shape |-> "connection", engine |-> 0, conn |-> 0]]

\* how a builder call ends
Returned(f) == [kind |-> "return", code |-> 0, exc |-> NoExc]
Exited(code, e) == [kind |-> "exit", code |-> code, exc |-> e]
Propagated(e) == [kind |-> "raise", code |-> 0, exc |-> e]

\* except Exception as e: print(...); sys.exit(1)                                  (35-38)
ldap_handler(f) ==
    IF f.exc.kind = "raise" THEN [f |-> f, out |-> Exited(1, f.exc)]
    ELSE [f |-> f, out |-> Returned(f)]

\* What the libraries do during one call: one outcome for each call the
\* function makes.  The source makes the calls in a fixed order and stops at
\* the first that raises, so the outcome of a call after a failing one is no
\* input and is fixed.
LdapLibs ==
    {l \in [srv : BOOLEAN, bind : {"bound", "unbound", "raise"}, on_path : BOOLEAN] :
        ~l.srv => l.bind = "bound"}

create_ldap_connection(ns, ldap_server, user_secret, pswd_secret, files, lib) ==
    LET f1 == retrieve(Frame0, "user", ns, user_secret, files, lib.on_path)   \* 17
        f2 == retrieve(f1, "pswd", ns, pswd_secret, files, lib.on_path)        \* 18
        f3 == ldap_descriptor(f2, ldap_server, lib.srv)                        \* 20-21
        f4 == ldap_bind(f3, lib.bind)                                          \* 22
        f5 == clear_credentials(f4)                                            \* 25-26
        f6 == ldap_check_bound(f5, ldap_server)                                \* 28-30
        f7 == ldap_return(f6)                                                  \* 33
    IN  ldap_handler(f7)                                                       \* 35-38

----------------------------------------------------------------------------
(* create_db_connection, lines 41-83 *)

MAX_IDENTIFIER_LENGTH == 128

\* mutant: the empty-value check is missing
db_check_nonempty_skipped(f, var, what, name) == f

\* if not db_user: raise RuntimeError(...) / if not db_pswd: raise RuntimeError(...)   (53-54, 57-58)
db_check_nonempty(f, var, what, name) ==
    IF ~Live(f) THEN f
    ELSE IF f[var] = <<>>
         THEN [f EXCEPT !.exc = Raise("RuntimeError", <<what, name, "'">>)]
         ELSE f

\* datasourcename = cx.makedsn(dbhost, dbport, service_name=dbsid)
\* connectstring = f'oracle+cx_oracle://{db_user}:{db_pswd}@{datasourcename}'     (60-61)
db_connectstring(f, dbhost, dbport, dbsid, ok) ==
    IF ~Live(f) THEN f
    ELSE [f EXCEPT !.url = IF ok
                           THEN <<"oracle+cx_oracle://", f.user, ":", f.pswd, "@",
                                  <<dbhost, dbport, dbsid>>>>
                           ELSE @,
                   !.exc = IF ok THEN @ ELSE Raise("TypeError", <<"makedsn">>),
                   !.events = Append(@, Ev("makedsn", dbhost, ok))]

\* engine = sqlalchemy.create_engine(connectstring, max_identifier_length=128)    (67)
db_create_engine(f, ok) ==
    IF ~Live(f) THEN f
    ELSE [f EXCEPT !.engines = IF ok THEN Append(@, [url |-> f.url,
                                                     max_identifier_length |-> MAX_IDENTIFIER_LENGTH,
                                                     disposed |-> FALSE])
                               ELSE @,
                   !.engine = IF ok THEN Len(f.engines) + 1 ELSE @,
                   !.exc = IF ok THEN @ ELSE Raise("ArgumentError", <<"create_engine">>),
                   !.events = Append(@, Ev("create_engine", "", ok))]

\* mutant: the connection is opened whatever engine_only says
db_branch_always_connect(f, engine_only, ok) ==
    IF ~Live(f) THEN f
    ELSE [f EXCEPT !.conns = IF ok THEN Append(@, [engine |-> f.engine, closed |-> FALSE]) ELSE @,
                   !.conn = IF ok THEN Len(f.conns) + 1 ELSE @,
                   !.exc = IF ok THEN @ ELSE Raise("DatabaseError", <<"connect">>),
                   !.events = Append(@, Ev("connect", "", ok)),
                   !.returned = ok,
                   !.value = IF ~ok THEN @
                             ELSE IF engine_only
                             THEN [shape |-> "engine", engine |-> f.engine, conn |-> 0]
                             ELSE [shape |-> "pair", engine |-> f.engine, conn |-> Len(f.conns) + 1]]

\* if engine_only: return engine
\* else: conn = engine.connect(); return engine, conn                               (70-74)
db_branch(f, engine_only, ok) ==
    IF ~Live(f) THEN f
    ELSE IF engine_only
         THEN [f EXCEPT !.returned = TRUE,
                        !.value = [shape |-> "engine", engine |-> f.engine, conn |-> 0]]
         ELSE [f EXCEPT !.conns = IF ok THEN Append(@, [engine |-> f.engine, closed |-> FALSE]) ELSE @,
                        !.conn = IF ok THEN Len(f.conns) + 1 ELSE @,
                        !.exc = IF ok THEN @ ELSE Raise("DatabaseError", <<"connect">>),
                        !.events = Append(@, Ev("connect", "", ok)),
                        !.returned = ok,
                        !.value = IF ok THEN [shape |-> "pair", engine |-> f.engine,
                                              conn |-> Len(f.conns) + 1]
                                  ELSE @]

\* if conn: conn.close()                                                            (79-80)
\* an exception raised here leaves the handler: the lines after it do not run
db_cleanup_conn(f, ok) ==
    IF f.conn = 0 THEN [f |-> f, raised |-> NoExc]
    ELSE [f |-> [f EXCEPT !.conns[f.conn].closed = ok,
                          !.events = Append(@, Ev("close", "", ok))],
          raised |-> IF ok THEN NoExc ELSE Raise("DatabaseError", <<"close">>)]

\* if engine: engine.dispose()                                                      (81-82)
db_cleanup_engine(f, ok) ==
    IF f.engine = 0 THEN [f |-> f, raised |-> NoExc]
    ELSE [f |-> [f EXCEPT !.engines[f.engine].disposed = ok,
                          !.events = Append(@, Ev("dispose", "", ok))],
          raised |-> IF ok THEN NoExc ELSE Raise("DatabaseError", <<"dispose">>)]

\* mutant: the handler exits without disposing of the engine
db_handler_no_dispose(f, close_ok, dispose_ok) ==
    IF f.exc.kind # "raise" THEN [f |-> f, out |-> Returned(f)]
    ELSE LET c == db_cleanup_conn(f, close_ok)
         IN  IF c.raised.kind = "raise" THEN [f |-> c.f, out |-> Propagated(c.raised)]
             ELSE [f |-> c.f, out |-> Exited(1, f.exc)]

\* except Exception as e: print(...); cleanup; sys.exit(1)                          (76-83)
db_handler(f, close_ok, dispose_ok) ==
    IF f.exc.kind # "raise" THEN [f |-> f, out |-> Returned(f)]
    ELSE LET c == db_cleanup_conn(f, close_ok)                                   \* 79-80
             d == db_cleanup_engine(c.f, dispose_ok)                             \* 81-82
         IN  IF c.raised.kind = "raise" THEN [f |-> c.f, out |-> Propagated(c.raised)]
             ELSE IF d.raised.kind = "raise" THEN [f |-> d.f, out |-> Propagated(d.raised)]
             ELSE [f |-> d.f, out |-> Exited(1, f.exc)]                          \* 83

\* As LdapLibs.  dispose is called by the handler only, that is after a
\* failure; close only on a connection that was opened.
DbLibs ==
    {l \in [dsn : BOOLEAN, engine : BOOLEAN, connect : BOOLEAN,
            close : BOOLEAN, dispose : BOOLEAN, on_path : BOOLEAN] :
        /\ ~l.dsn => l.engine
        /\ ~(l.dsn /\ l.engine) => l.connect
        /\ l.connect => l.dispose
        /\ ~(l.dsn /\ l.engine /\ l.connect) => l.close}

create_db_connection(ns, dbhost, dbport, dbsid, user_secret, pswd_secret, engine_only, files, lib) ==
    LET f1 == retrieve(Frame0, "user", ns, user_secret, files, lib.on_path)                \* 52
        f2 == db_check_nonempty(f1, "user", "Retrieved empty username secret for '", user_secret)  \* 53-54
        f3 == retrieve(f2, "pswd", ns, pswd_secret, files, lib.on_path)                     \* 56
        f4 == db_check_nonempty(f3, "pswd", "Retrieved empty password for '", pswd_secret)  \* 57-58
        f5 == db_connectstring(f4, dbhost, dbport, dbsid, lib.dsn)                          \* 60-61
        f6 == clear_credentials(f5)                                                         \* 64-65
        f7 == db_create_engine(f6, lib.engine)                                              \* 67
        f8 == db_branch(f7, engine_only, lib.connect)                                       \* 70-74
    IN  db_handler(f8, lib.close, lib.dispose)                                              \* 76-83

----------------------------------------------------------------------------
(* The state machine *)

\* the names secret_retriever.py defines that are callable
RetrieverFunctions == [x \in {"get_password"} |-> "get_password"]

NoCall == [op |-> "none"]

Running == [running |-> TRUE, code |-> 0]
\* sys.exit(code)
Terminated(code) == [running |-> FALSE, code |-> code]

InitWith(n, namespaces) ==
    /\ \E present \in SUBSET SecretNames :
         fs \in [{enc_file_of(s) : s \in present} -> GpgBehaviours(n)]
    /\ secret_retriever \in namespaces
    /\ status = Running
    /\ kinds = {}
    /\ seen = {}
    /\ last = NoCall

\* the repository as it is
Init == InitWith(MaxLen, {RetrieverFunctions})

\* a caller calls get_password directly
CallGetPassword ==
    /\ status.running
    /\ \E secret_name \in SecretNames, on_path \in BOOLEAN :
         LET r == get_password(secret_name, fs, on_path)
             cause == CauseOf(secret_name, fs, on_path)
         IN  /\ last' = [op |-> "get_password", secret_name |-> secret_name,
                         on_path |-> on_path, cause |-> cause,
                         out |-> r.res, runs |-> r.runs,
                         repeat |-> secret_name \in seen]
             /\ kinds' = IF r.res.kind = "raise"
                         THEN kinds \cup {<<cause, r.res.type>>} ELSE kinds
             /\ seen' = IF r.runs # <<>> THEN seen \cup {secret_name} ELSE seen
    /\ UNCHANGED <<fs, secret_retriever, status>>

\* the record of a builder call
BuilderCall(op, user_secret, pswd_secret, engine_only, lib, r) ==
    [op |-> op, user_secret |-> user_secret, pswd_secret |-> pswd_secret,
     engine_only |-> engine_only, on_path |-> lib.on_path,
     out |-> r.out, value |-> r.f.value,
     user |-> r.f.user, pswd |-> r.f.pswd, srv |-> r.f.srv, oud |-> r.f.oud,
     engines |-> r.f.engines, conns |-> r.f.conns,
     runs |-> r.f.runs, events |-> r.f.events]

SpawnedNames(runs) ==
    {s \in SecretNames : \E i \in 1..Len(runs) : runs[i] = gpg_cmd(enc_file_of(s))}

Finish(call) ==
    /\ last' = call
    /\ status' = IF call.out.kind = "exit" THEN Terminated(call.out.code) ELSE status
    /\ seen' = seen \cup SpawnedNames(call.runs)
    /\ UNCHANGED <<fs, secret_retriever, kinds>>

LdapServers == {"ldap.example.org"}

\* a caller calls create_ldap_connection
CallCreateLdapConnection ==
    /\ status.running
    /\ \E ldap_server \in LdapServers, user_secret \in SecretNames, pswd_secret \in SecretNames,
          lib \in LdapLibs :
         Finish(BuilderCall("create_ldap_connection", user_secret, pswd_secret, FALSE, lib,
                            create_ldap_connection(secret_retriever, ldap_server,
                                                   user_secret, pswd_secret, fs, lib)))

\* a caller calls create_db_connection
CallCreateDbConnection ==
    /\ status.running
    /\ \E user_secret \in SecretNames, pswd_secret \in SecretNames,
          engine_only \in BOOLEAN, lib \in DbLibs :
         Finish(BuilderCall("create_db_connection", user_secret, pswd_secret, engine_only, lib,
                            create_db_connection(secret_retriever, "dbhost", "1521", "ORCL",
                                                 user_secret, pswd_secret, engine_only, fs, lib)))

Next ==
    \/ CallGetPassword
    \/ CallCreateLdapConnection
    \/ CallCreateDbConnection

Spec == Init /\ [][Next]_vars

\* connection_helpers.py against either binding of the name it calls: the
\* repository's module, in which get_secret is not defined, and the same
\* module with get_secret naming its retrieval function.  The first is the
\* repository; the second is what the helpers are written against, and is
\* where the steps after a retrieval are reached.
LinkedFunctions == [x \in {"get_password", "get_secret"} |-> "get_password"]

InitLinked == InitWith(MaxSecretLen, {RetrieverFunctions, LinkedFunctions})

SpecLinked == InitLinked /\ [][Next]_vars

----------------------------------------------------------------------------
(* What the claims speak about *)

IsRetrieve == last.op = "get_password"
IsLdap == last.op = "create_ldap_connection"
IsDb == last.op = "create_db_connection"
IsBuilder == IsLdap \/ IsDb

\* the path the specification derives from a secret name, written out
DerivedPath(name) == "/opt/credential_store/" \o name \o "_secret.txt.gpg"
PassphrasePath == "/opt/credential_store/.gpg_passphrase"

FilePresent(name) == DerivedPath(name) \in DOMAIN fs

AllWhitespace(t) == \A i \in 1..Len(t) : t[i] \in Whitespace

\* the decryption tool, run on the file of `name`, succeeds
Decrypts(name, on_path) ==
    FilePresent(name) /\ on_path /\ fs[DerivedPath(name)].rc = 0
DecryptsToEmpty(name, on_path) ==
    Decrypts(name, on_path) /\ AllWhitespace(fs[DerivedPath(name)].stdout)
DecryptsToValue(name, on_path) ==
    Decrypts(name, on_path) /\ ~AllWhitespace(fs[DerivedPath(name)].stdout)

\* the name the builders call is defined in module secret_retriever
Resolvable == "get_secret" \in DOMAIN secret_retriever

Called(call) == \E i \in 1..Len(last.events) : last.events[i].call = call
CountCalled(call) == Cardinality({i \in 1..Len(last.events) : last.events[i].call = call})

Succeeded(call) == \E i \in 1..Len(last.events) : last.events[i] = Ev(call, "", TRUE)

\* no library call made during the call failed, and the directory
\* connection, if one was made, is bound
LibrariesSucceed ==
    /\ \A i \in 1..Len(last.events) :
         last.events[i].call # "get_secret" => last.events[i].ok
    /\ last.oud # "unbound"

----------------------------------------------------------------------------
(* C1: when both secrets have an encrypted file, the tool decrypts both to *)
(* non-empty values and every library step succeeds, a builder retrieves   *)
(* the username, then the password, through get_password, returns its      *)
(* result, and the process does not terminate.                             *)
C1_SuccessPathReturns ==
    (/\ IsBuilder
     /\ DecryptsToValue(last.user_secret, last.on_path)
     /\ DecryptsToValue(last.pswd_secret, last.on_path)
     /\ LibrariesSucceed)
    => /\ last.out.kind = "return"
       /\ status.running
       /\ Len(last.runs) = 2
       /\ last.runs[1][8] = DerivedPath(last.user_secret)
       /\ last.runs[2][8] = DerivedPath(last.pswd_secret)
       /\ IsLdap => last.value.shape = "connection"
       /\ IsDb => last.value.shape = IF last.engine_only THEN "engine" ELSE "pair"

----------------------------------------------------------------------------
----------------------------------------------------------------------------
(* C3: for a secret name whose encrypted file exists, one get_password     *)
(* call invokes the decryption tool exactly once, with the fixed           *)
(* passphrase-file path and the path derived from the name, whether the    *)
(* tool succeeds, exits non-zero or is missing, and also when the same     *)
(* name was already decrypted by an earlier call.                          *)
C3_ExactlyOneSpawn ==
    (IsRetrieve /\ FilePresent(last.secret_name))
    => /\ Len(last.runs) = 1
       /\ last.runs[1][1] = "gpg"
       /\ last.runs[1][5] = "--passphrase-file"
       /\ last.runs[1][6] = PassphrasePath
       /\ last.runs[1][7] = "--decrypt"
       /\ last.runs[1][8] = DerivedPath(last.secret_name)

C3_Witness ==
    /\ IsRetrieve /\ FilePresent(last.secret_name)
    /\ last.repeat
    /\ last.out.kind = "return"
    /\ Len(last.runs) = 1

----------------------------------------------------------------------------
(* C4 as stated: on success get_password returns the tool's stdout with    *)
(* only trailing whitespace removed; leading whitespace is preserved.      *)
C4_OnlyTrailingRemoved ==
    (IsRetrieve /\ last.out.kind = "return")
    => LET out == fs[DerivedPath(last.secret_name)].stdout
           v == last.out.value
       IN  /\ Len(v) <= Len(out)
           /\ SubSeq(out, 1, Len(v)) = v
           /\ AllWhitespace(SubSeq(out, Len(v) + 1, Len(out)))
           /\ (v # <<>> => v[Len(v)] \notin Whitespace)

(* C4 amended: on success get_password returns the tool's stdout with its  *)
(* leading and its trailing whitespace removed and nothing else changed:   *)
(* stdout is whitespace, then the returned value, then whitespace, and the *)
(* returned value neither starts nor ends with whitespace.                 *)
C4_BothEndsRemoved ==
    (IsRetrieve /\ last.out.kind = "return")
    => LET out == fs[DerivedPath(last.secret_name)].stdout
           v == last.out.value
       IN  /\ (v # <<>> => v[1] \notin Whitespace /\ v[Len(v)] \notin Whitespace)
           /\ \E i \in 0..Len(out) :
                /\ i + Len(v) <= Len(out)
                /\ AllWhitespace(SubSeq(out, 1, i))
                /\ SubSeq(out, i + 1, i + Len(v)) = v
                /\ AllWhitespace(SubSeq(out, i + Len(v) + 1, Len(out)))

\* stdout with leading whitespace, internal whitespace kept in the value
C4_Witness ==
    /\ IsRetrieve /\ last.out.kind = "return"
    /\ fs[DerivedPath(last.secret_name)].stdout = <<"\n", "a", "\n">>
    /\ last.out.value = <<"a">>

----------------------------------------------------------------------------
(* C5 as stated: the three causes of failure of get_password (file         *)
(* missing, tool exited non-zero, tool missing) raise three distinct kinds *)
(* of error, so that the kind alone tells the cause.                       *)
C5_KindTellsCause ==
    \A k1 \in kinds, k2 \in kinds : k1[2] = k2[2] => k1[1] = k2[1]

(* C5 amended: a missing file raises FileNotFoundError and no other cause  *)
(* does; a tool that exited non-zero and a tool that is missing both raise *)
(* RuntimeError, told apart by the message only: the first carries the     *)
(* secret name and the tool's stderr verbatim, the second a fixed text.    *)
C5_TwoKinds ==
    /\ \A k \in kinds :
         /\ (k[1] = "file missing") <=> (k[2] = "FileNotFoundError")
         /\ (k[1] \in {"tool failed", "tool missing"}) <=> (k[2] = "RuntimeError")
    /\ (IsRetrieve /\ last.out.kind = "raise") =>
         /\ last.cause = "tool failed" =>
              /\ Len(last.out.msg) = 4
              /\ last.out.msg[2] = last.secret_name
              /\ last.out.msg[4] = fs[DerivedPath(last.secret_name)].stderr
         /\ last.cause = "tool missing" =>
              last.out.msg = <<"gpg command not found. Is GnuPG installed?">>
    /\ (IsRetrieve /\ last.cause # "none") => last.out.kind = "raise"

C5_Witness ==
    /\ {<<"file missing", "FileNotFoundError">>, <<"tool failed", "RuntimeError">>,
        <<"tool missing", "RuntimeError">>} \subseteq kinds
    /\ IsRetrieve /\ last.cause = "tool failed"

----------------------------------------------------------------------------
----------------------------------------------------------------------------
----------------------------------------------------------------------------
----------------------------------------------------------------------------
----------------------------------------------------------------------------
ResetReached ==
    /\ Resolvable
    /\ Decrypts(last.user_secret, last.on_path)
    /\ Decrypts(last.pswd_secret, last.on_path)
    /\ IsLdap => Succeeded("Connection")
    /\ IsDb => /\ DecryptsToValue(last.user_secret, last.on_path)
               /\ DecryptsToValue(last.pswd_secret, last.on_path)
               /\ \E i \in 1..Len(last.events) :
                    last.events[i].call = "makedsn" /\ last.events[i].ok

====
